---- MODULE Spec2Model ----
(***************************************************************************)
(* Model of the GeoPackage / WKB binary decoder of provider/gpkg           *)
(* (gpkgFormat.go).                                                        *)
(*                                                                         *)
(* A Go byte slice is a sequence of bytes 0..255; bytes[a:b] is            *)
(* SubSeq(bytes, a+1, b).  Every buffer is a whole blob (cap = len), so a  *)
(* slice expression whose upper index exceeds the length panics.           *)
(*                                                                         *)
(* A call of a decode routine ends in one of three ways:                   *)
(*   "ok"     it returns to its caller,                                    *)
(*   "fatal"  logrus log.Fatal ran: the entry is logged and the process    *)
(*            exits (os.Exit(1)); nothing is returned,                     *)
(*   "panic"  a Go run-time panic (index or slice bounds out of range);    *)
(*            nothing in the package recovers, so the process ends.        *)
(* A make() of a count that the buffer cannot back may instead end the     *)
(* process with an out-of-memory error; in every such input the decode     *)
(* ends "fatal" or "panic" here, so the process ends either way.           *)
(*                                                                         *)
(* A uint32 is kept as two 16-bit halves [hi, lo] (its value is            *)
(* hi * 65536 + lo); a float64 is kept as its 64-bit pattern, the 8 bytes  *)
(* most significant first (math.Float64frombits only reinterprets them).   *)
(***************************************************************************)
EXTENDS Integers, Sequences, FiniteSets, TLC

\* gpkgFormat.go:12-13, the byte ordering flags
wkbXDR == 0
wkbNDR == 1

\* ------------------------------------------------------------------------
\* Go slices and results

Slice(b, lo, hi) == SubSeq(b, lo + 1, hi)

Reverse(s) == [k \in 1..Len(s) |-> s[Len(s) + 1 - k]]

U32(b3, b2, b1, b0) == [hi |-> b3 * 256 + b2, lo |-> b1 * 256 + b0]

ZeroU32 == [hi |-> 0, lo |-> 0]

\* p < n for an int p below 65536 and a uint32 n
LessU32(p, n) == n.hi > 0 \/ p < n.lo

\* one log entry: level, the function that logged, the code it reports
LogEntry(level, fn, code) == [level |-> level, fn |-> fn, code |-> code]

\* ------------------------------------------------------------------------
\* Scalar codec

\* gpkgFormat.go:21-39
bytesToUint32(bytes, byteOrder) ==
  IF Len(bytes) # 4
  THEN [st |-> "fatal", v |-> ZeroU32,
        log |-> <<LogEntry("fatal", "bytesToUint32", ZeroU32)>>]
  ELSE IF byteOrder = wkbXDR
  THEN [st |-> "ok", v |-> U32(bytes[1], bytes[2], bytes[3], bytes[4]), log |-> <<>>]
  ELSE IF byteOrder = wkbNDR
  THEN [st |-> "ok", v |-> U32(bytes[4], bytes[3], bytes[2], bytes[1]), log |-> <<>>]
  ELSE [st |-> "fatal", v |-> ZeroU32,
        log |-> <<LogEntry("fatal", "bytesToUint32", ZeroU32)>>]

\* gpkgFormat.go:41-61
bytesToFloat64(bytes, byteOrder) ==
  IF Len(bytes) # 8
  THEN [st |-> "fatal", v |-> <<>>,
        log |-> <<LogEntry("fatal", "bytesToFloat64", ZeroU32)>>]
  ELSE IF byteOrder = wkbXDR
  THEN [st |-> "ok", v |-> bytes, log |-> <<>>]
  ELSE IF byteOrder = wkbNDR
  THEN [st |-> "ok", v |-> Reverse(bytes), log |-> <<>>]
  ELSE [st |-> "fatal", v |-> <<>>,
        log |-> <<LogEntry("fatal", "bytesToFloat64", ZeroU32)>>]

\* ------------------------------------------------------------------------
\* Geometry decoder.  A result is
\*   [st, geom, n, allocs, log]: how the call ended, the receiver it filled
\*   (a sequence of zero or one value), the bytes consumed, the make() calls
\*   it ran (elements asked for, bytes each element needs, bytes left in the
\*   buffer for them) and the entries it logged.

Alloc(count, unit, avail) == [count |-> count, unit |-> unit, avail |-> avail]

Ended(st, allocs, log) ==
  [st |-> st, geom |-> <<>>, n |-> 0, allocs |-> allocs, log |-> log]

\* gpkgFormat.go:68-79
WKBPointInit(bytes, byteOrder) ==
  IF Len(bytes) # 16
  THEN Ended("fatal", <<>>, <<LogEntry("fatal", "WKBPoint.Init", ZeroU32)>>)
  ELSE LET x == bytesToFloat64(Slice(bytes, 0, 8), byteOrder)
           y == bytesToFloat64(Slice(bytes, 8, 16), byteOrder)
       IN  IF x.st # "ok" THEN Ended(x.st, <<>>, x.log)
           ELSE IF y.st # "ok" THEN Ended(y.st, <<>>, y.log)
           ELSE [st |-> "ok", geom |-> <<[x |-> x.v, y |-> y.v]>>, n |-> 16,
                 allocs |-> <<>>, log |-> <<>>]

\* gpkgFormat.go:98-102, the loop over the points of a ring; WKBPoint.Init's
\* return value is dropped and the cursor moves by 16
RECURSIVE LinearRingPoints(_, _, _, _, _, _, _)
LinearRingPoints(bytes, byteOrder, numPoints, p, i, points, allocs) ==
  IF ~ LessU32(p, numPoints)
  THEN [st |-> "ok", geom |-> <<[numPoints |-> numPoints, points |-> points]>>,
        n |-> i, allocs |-> allocs, log |-> <<>>]
  ELSE IF i + 16 > Len(bytes)
  THEN Ended("panic", allocs, <<>>)
  ELSE LET pt == WKBPointInit(Slice(bytes, i, i + 16), byteOrder)
       IN  IF pt.st # "ok" THEN Ended(pt.st, allocs, pt.log)
           ELSE LinearRingPoints(bytes, byteOrder, numPoints, p + 1, i + 16,
                                 Append(points, pt.geom[1]), allocs)

\* WKBLinearRing.Init without the "i += 4" after the point count is read
WKBLinearRingInitNoSkip(bytes, byteOrder) ==
  IF Len(bytes) < 4
  THEN Ended("fatal", <<>>, <<LogEntry("fatal", "WKBLinearRing.Init", ZeroU32)>>)
  ELSE LET numPoints == bytesToUint32(Slice(bytes, 0, 4), byteOrder)
       IN  IF numPoints.st # "ok" THEN Ended(numPoints.st, <<>>, numPoints.log)
           ELSE LinearRingPoints(bytes, byteOrder, numPoints.v, 0, 0, <<>>,
                                 <<Alloc(numPoints.v, 16, Len(bytes) - 4)>>)

\* gpkgFormat.go:86-103
WKBLinearRingInit(bytes, byteOrder) ==
  IF Len(bytes) < 4
  THEN Ended("fatal", <<>>, <<LogEntry("fatal", "WKBLinearRing.Init", ZeroU32)>>)
  ELSE LET numPoints == bytesToUint32(Slice(bytes, 0, 4), byteOrder)
       IN  IF numPoints.st # "ok" THEN Ended(numPoints.st, <<>>, numPoints.log)
           ELSE LinearRingPoints(bytes, byteOrder, numPoints.v, 0, 4, <<>>,
                                 <<Alloc(numPoints.v, 16, Len(bytes) - 4)>>)

\* gpkgFormat.go:134-139, the loop over the rings of a polygon
RECURSIVE PolygonRings(_, _, _, _, _, _, _)
PolygonRings(bytes, byteOrder, numRings, j, i, rings, allocs) ==
  IF ~ LessU32(j, numRings)
  THEN [st |-> "ok",
        geom |-> <<[byteOrder |-> byteOrder, wkbType |-> U32(0, 0, 0, 3),
                    numRings |-> numRings, rings |-> rings]>>,
        n |-> i, allocs |-> allocs, log |-> <<>>]
  ELSE LET lr == WKBLinearRingInit(Slice(bytes, i, Len(bytes)), byteOrder)
       IN  IF lr.st # "ok" THEN Ended(lr.st, allocs \o lr.allocs, lr.log)
           ELSE PolygonRings(bytes, byteOrder, numRings, j + 1, i + lr.n,
                             Append(rings, lr.geom[1]), allocs \o lr.allocs)

\* gpkgFormat.go:146-156, WKBTypeFlags["WKBPolygon"]
polygonType == U32(0, 0, 0, 3)

\* gpkgFormat.go:114-140
WKBPolygonInit(bytes) ==
  IF Len(bytes) < 1 THEN Ended("panic", <<>>, <<>>)
  ELSE IF Len(bytes) < 5 THEN Ended("panic", <<>>, <<>>)
  ELSE LET byteOrder == bytes[1]
           wkbType == bytesToUint32(Slice(bytes, 1, 5), byteOrder)
       IN  IF wkbType.st # "ok" THEN Ended(wkbType.st, <<>>, wkbType.log)
           ELSE IF wkbType.v # polygonType
           THEN Ended("fatal", <<>>, <<LogEntry("fatal", "WKBPolygon.Init", wkbType.v)>>)
           ELSE IF Len(bytes) < 9 THEN Ended("panic", <<>>, <<>>)
           ELSE LET numRings == bytesToUint32(Slice(bytes, 5, 9), byteOrder)
                IN  IF numRings.st # "ok" THEN Ended(numRings.st, <<>>, numRings.log)
                    ELSE PolygonRings(bytes, byteOrder, numRings.v, 0, 9, <<>>,
                                      <<Alloc(numRings.v, 4, Len(bytes) - 9)>>)

\* gpkgFormat.go:158-167: TRUE when a geometry is constructed, FALSE for nil
newWKBGeometry(geomType) == geomType = U32(0, 0, 0, 3)

\* gpkgFormat.go:169-187
readNextGeometry(bytes) ==
  IF Len(bytes) = 0
  THEN [st |-> "ok", geom |-> <<>>, n |-> 0, allocs |-> <<>>, log |-> <<>>]
  ELSE IF Len(bytes) < 5 THEN Ended("panic", <<>>, <<>>)
  ELSE LET byteOrder == bytes[1]
           geomType == bytesToUint32(Slice(bytes, 1, 5), byteOrder)
       IN  IF geomType.st # "ok" THEN Ended(geomType.st, <<>>, geomType.log)
           ELSE IF ~ newWKBGeometry(geomType.v)
           THEN Ended("fatal", <<>>,
                      << LogEntry("error", "newWKBGeometry", geomType.v),
                         LogEntry("fatal", "readNextGeometry", geomType.v) >>)
           ELSE WKBPolygonInit(bytes)

\* ------------------------------------------------------------------------
\* Header parser

\* gpkgFormat.go:213-223, the zero value of the struct
NewHeader ==
  [initialized |-> FALSE, magic |-> 0, version |-> 0, flags |-> 0,
   flagsReady |-> FALSE, srs_id |-> 0, envelope |-> <<>>, headerSize |-> 0]

\* int32 of four bytes, b3 the most significant (two's complement)
Int32(b3, b2, b1, b0) ==
  (IF b3 >= 128 THEN b3 - 256 ELSE b3) * 16777216 + b2 * 65536 + b1 * 256 + b0

\* gpkgFormat.go:225-256
bytesToInt32(bytes, byteOrder) ==
  IF Len(bytes) # 4 THEN -1
  ELSE LET valueLittleEndian == Int32(bytes[4], bytes[3], bytes[2], bytes[1])
           valueBigEndian == Int32(bytes[1], bytes[2], bytes[3], bytes[4])
       IN  IF byteOrder = wkbNDR THEN valueLittleEndian
           ELSE IF byteOrder = wkbXDR THEN valueBigEndian
           ELSE 0

\* gpkgFormat.go:376-393
EnvelopeType(h) == IF h.flagsReady THEN (h.flags \div 2) % 8 ELSE 0

\* gpkgFormat.go:300-342, the number of doubles each case of the switch makes
EnvelopeLen(eType) ==
  CASE eType = 0 -> 0
    [] eType = 1 -> 4
    [] eType = 2 -> 6
    [] eType = 3 -> 6
    [] eType = 4 -> 8
    [] OTHER -> 0

\* hSize with case 4 adding what case 3 adds
HeaderSizeCase4As3(eType) ==
  8 + (CASE eType = 1 -> 4 * 8
         [] eType = 2 -> 6 * 8
         [] eType = 3 -> 6 * 8
         [] eType = 4 -> 6 * 8
         [] OTHER -> 0)

\* gpkgFormat.go:298-344, hSize: 8, plus what the case of the switch adds
HeaderSize(eType) ==
  8 + (CASE eType = 1 -> 4 * 8
         [] eType = 2 -> 6 * 8
         [] eType = 3 -> 6 * 8
         [] eType = 4 -> 8 * 8
         [] OTHER -> 0)

ZeroFloat64 == <<0, 0, 0, 0, 0, 0, 0, 0>>

\* gpkgFormat.go:306-338, the assignments h.envelope[k] = bytesToFloat64(
\* geom[8+8k : 16+8k], headerByteOrder) of one case, in order
RECURSIVE EnvelopeFill(_, _, _, _)
EnvelopeFill(geom, headerByteOrder, envelope, k) ==
  IF k >= Len(envelope) THEN [st |-> "ok", envelope |-> envelope, log |-> <<>>]
  ELSE IF 16 + 8 * k > Len(geom)
  THEN [st |-> "panic", envelope |-> envelope, log |-> <<>>]
  ELSE LET f == bytesToFloat64(Slice(geom, 8 + 8 * k, 16 + 8 * k), headerByteOrder)
       IN  IF f.st # "ok" THEN [st |-> f.st, envelope |-> envelope, log |-> f.log]
           ELSE EnvelopeFill(geom, headerByteOrder,
                             [envelope EXCEPT ![k + 1] = f.v], k + 1)

\* gpkgFormat.go:280-295, the srs_id probe
SrsIdProbe(srs, headerByteOrder) ==
  LET first == bytesToInt32(srs, wkbNDR)
      newByteOrder == IF 1 = headerByteOrder THEN 0 ELSE 1
      second == bytesToInt32(srs, newByteOrder)
      retry == LogEntry("error", "GeoPackageBinaryHeader.Init", ZeroU32)
  IN  IF first < 0 \/ first > 9999
      THEN IF second < 0 \/ second > 9999
           THEN [v |-> 0, log |-> <<retry, retry, retry>>]
           ELSE [v |-> second, log |-> <<retry, retry, retry>>]
      ELSE [v |-> first, log |-> <<>>]

\* gpkgFormat.go:267-276
MagicOf(b0, b1, headerByteOrder) ==
  IF headerByteOrder = 1 THEN b0 * 256 + b1 ELSE b1 * 256 + b0

\* gpkgFormat.go:258-349; the result carries the header as the call left it
GeoPackageBinaryHeaderInit(h, geom) ==
  IF Len(geom) < 4 THEN [st |-> "panic", h |-> h, log |-> <<>>]
  ELSE
    LET flags == geom[4]
        headerByteOrder == flags % 2
        h1 == [h EXCEPT !.flags = flags, !.flagsReady = TRUE,
                        !.magic = MagicOf(geom[1], geom[2], headerByteOrder),
                        !.version = geom[3]]
    IN  IF Len(geom) < 8 THEN [st |-> "panic", h |-> h1, log |-> <<>>]
        ELSE
          LET srs == SrsIdProbe(Slice(geom, 4, 8), headerByteOrder)
              h2 == [h1 EXCEPT !.srs_id = srs.v]
              eType == EnvelopeType(h2)
              invalid == IF eType > 4
                         THEN <<LogEntry("error", "GeoPackageBinaryHeader.Init", ZeroU32)>>
                         ELSE <<>>
              env == EnvelopeFill(geom, headerByteOrder,
                                  [k \in 1..EnvelopeLen(eType) |-> ZeroFloat64], 0)
              h3 == [h2 EXCEPT !.envelope = env.envelope]
          IN  IF env.st # "ok"
              THEN [st |-> env.st, h |-> h3, log |-> srs.log \o invalid \o env.log]
              ELSE [st |-> "ok",
                    h |-> [h3 EXCEPT !.headerSize = HeaderSize(eType),
                                     !.initialized = TRUE],
                    log |-> srs.log \o invalid]

\* gpkgFormat.go:351-358
isInitialized(h) == h.initialized

\* gpkgFormat.go:360-366
Magic(h) == IF isInitialized(h) THEN h.magic ELSE 0

\* gpkgFormat.go:368-374
Version(h) == IF isInitialized(h) THEN h.version ELSE 0

\* gpkgFormat.go:395-401
SRSId(h) == IF isInitialized(h) THEN h.srs_id ELSE -1

\* gpkgFormat.go:403-409 (nil is the empty sequence)
Envelope(h) == IF isInitialized(h) THEN h.envelope ELSE <<>>

\* gpkgFormat.go:411-417
Size(h) == IF isInitialized(h) THEN h.headerSize ELSE -1

\* ------------------------------------------------------------------------
\* Inputs.  A blob is described by what it was assembled from (src), so that a
\* decode can be compared with the values that were encoded.

\* most geometries in one stream buffer
MaxGeoms == 2
\* most rings in a polygon decoded alone, most points in one of its rings
MaxRings == 2
MaxPoints == 1

RECURSIVE Concat(_)
Concat(ss) == IF ss = <<>> THEN <<>> ELSE Head(ss) \o Concat(Tail(ss))

\* a count below 256 as a uint32 in the given byte order
EncU32(n, byteOrder) == IF byteOrder = wkbXDR THEN <<0, 0, 0, n>> ELSE <<n, 0, 0, 0>>

EncF64(bits, byteOrder) == IF byteOrder = wkbXDR THEN bits ELSE Reverse(bits)

\* the k-th point of the r-th ring: two distinct, asymmetric bit patterns
PointBits(r, k) ==
  [x |-> <<64, r, 0, 0, 0, 0, 0, k>>, y |-> <<192, k, 0, 0, 0, 0, 1, r>>]

EncRing(byteOrder, r, count) ==
  EncU32(count, byteOrder)
    \o Concat([k \in 1..count |->
                 EncF64(PointBits(r, k).x, byteOrder) \o EncF64(PointBits(r, k).y, byteOrder)])

\* a well-formed WKB polygon whose r-th ring holds shape[r] points
EncPolygon(byteOrder, shape) ==
  <<byteOrder>> \o EncU32(3, byteOrder) \o EncU32(Len(shape), byteOrder)
    \o Concat([r \in 1..Len(shape) |-> EncRing(byteOrder, r, shape[r])])

\* the value that polygon encodes
ValPolygon(byteOrder, shape) ==
  [byteOrder |-> byteOrder, wkbType |-> U32(0, 0, 0, 3),
   numRings |-> U32(0, 0, 0, Len(shape)),
   rings |-> [r \in 1..Len(shape) |->
                [numPoints |-> U32(0, 0, 0, shape[r]),
                 points |-> [k \in 1..shape[r] |-> PointBits(r, k)]]]]

Poly(byteOrder, shape) ==
  [enc |-> EncPolygon(byteOrder, shape), val |-> ValPolygon(byteOrder, shape),
   shape |-> shape]

Shapes == UNION {[1..n -> 0..MaxPoints] : n \in 0..MaxRings}

\* the polygons decoded alone
Polys == {Poly(bo, sh) : bo \in {wkbXDR, wkbNDR}, sh \in Shapes}

\* the polygons that are concatenated into streams
StreamPolys ==
  {Poly(bo, sh) : bo \in {wkbXDR, wkbNDR}, sh \in {<<>>, <<0>>, <<1>>, <<1, 0>>}}

SeqsUpTo(S, n) == UNION {[1..k -> S] : k \in 0..n}

\* bytes that do not form a complete polygon
Fragments ==
  { <<1>>, <<1, 3, 0>>, <<1, 3, 0, 0, 0>>,
    <<2, 3, 0, 0, 0>>, <<2, 3, 0, 0, 0, 0, 0, 0, 0>>,
    <<1, 99, 0, 0, 0>>, <<0, 0, 0, 0, 99>>, <<1, 0, 0, 0, 0>>,
    <<1, 1, 0, 0, 0>>, <<1, 2, 0, 0, 0>>, <<1, 4, 0, 0, 0>>, <<1, 5, 0, 0, 0>>,
    <<1, 6, 0, 0, 0>>, <<0, 0, 0, 0, 7>>, <<1, 3, 0, 0, 1>>,
    <<1, 1, 0, 0, 0, 0, 0, 0, 0, 0, 0, 0, 0, 0, 0, 0, 0, 0, 0, 0, 0>>,
    <<1, 3, 0, 0, 0, 1, 0, 0, 0>>,
    <<1, 3, 0, 0, 0, 1, 0, 0, 0, 2, 0, 0, 0>>,
    <<0, 0, 0, 0, 3, 0, 0, 0, 1, 0, 0, 0, 1, 64, 1, 0, 0, 0, 0, 0, 1>>,
    <<0, 0, 0, 0, 3, 255, 255, 255, 255>>,
    <<1, 3, 0, 0, 0, 1, 0, 0, 0, 255, 255, 255, 255>> }

WkbSources ==
  { [kind |-> "wkb", polys |-> ps, tail |-> t] :
      ps \in {<<q>> : q \in Polys} \cup SeqsUpTo(StreamPolys, MaxGeoms),
      t \in Fragments \cup {<<>>} }

WkbBytes(s) == Concat([k \in 1..Len(s.polys) |-> s.polys[k].enc]) \o s.tail

\* GeoPackage header blobs: the two magic bytes, the flags byte, the srs_id
\* bytes, nEnv envelope doubles and the bytes that follow the header
SrsBytes ==
  { <<0, 0, 0, 0>>, <<230, 16, 0, 0>>, <<0, 0, 16, 230>>, <<17, 15, 0, 0>>,
    <<0, 0, 15, 17>>, <<15, 39, 0, 0>>, <<16, 39, 0, 0>>, <<0, 0, 39, 15>>,
    <<0, 0, 39, 16>>, <<251, 255, 255, 255>>, <<255, 255, 255, 251>>,
    <<1, 0, 0, 1>>, <<255, 255, 255, 255>>, <<0, 0, 0, 128>> }

FlagBytes == {bo + 2 * e : bo \in 0..1, e \in 0..7} \cup {17, 32}

EnvBits(k) == <<64, k, 0, 0, 0, 0, 0, k + 1>>

GpkgSources ==
  { [kind |-> "gpkg", magic |-> m, flags |-> f, srs |-> s, nEnv |-> n, payload |-> p] :
      m \in {<<71, 80>>, <<80, 71>>}, f \in FlagBytes, s \in SrsBytes,
      n \in {0, 3, 4, 6, 8}, p \in {<<>>, EncPolygon(wkbNDR, <<1>>)} }

GpkgBytes(s) ==
  s.magic \o <<0, s.flags>> \o s.srs
    \o Concat([k \in 1..s.nEnv |-> EncF64(EnvBits(k), s.flags % 2)])
    \o s.payload

ShortBlobs == { [kind |-> "raw", bytes |-> b] : b \in {<<71, 80, 0>>, <<71, 80, 0, 1, 230, 16>>} }

Sources == WkbSources \cup GpkgSources \cup ShortBlobs

SourceBytes(s) ==
  CASE s.kind = "wkb" -> WkbBytes(s)
    [] s.kind = "gpkg" -> GpkgBytes(s)
    [] OTHER -> s.bytes

\* ------------------------------------------------------------------------
\* The program: one decode entry point is called on one blob.

VARIABLES
  src,      \* what the blob was assembled from
  bytes,    \* the blob
  pc,       \* "idle", "readGeometries" (in its loop), "returned",
            \* "exited" (log.Fatal) or "panicked"
  call,     \* the entry point that was called
  byteOrd,  \* the byteOrder argument of a call of WKBLinearRing.Init
  i,        \* readGeometries: current read location
  geoms,    \* the geometries decoded (readGeometries: collected so far)
  consumed, \* the returned count of bytes consumed
  allocs,   \* the make() calls run
  log,      \* the entries logged (Error, Warn, Fatal)
  h,        \* the GeoPackageBinaryHeader
  seen      \* what the header's accessors returned, once asked

vars == <<src, bytes, pc, call, byteOrd, i, geoms, consumed, allocs, log, h, seen>>

Init ==
  /\ src \in Sources
  /\ bytes = SourceBytes(src)
  /\ pc = "idle"
  /\ call = "none"
  /\ byteOrd = 0
  /\ i = 0
  /\ geoms = <<>>
  /\ consumed = 0
  /\ allocs = <<>>
  /\ log = <<>>
  /\ h = NewHeader
  /\ seen = <<>>

PcAfter(st) ==
  CASE st = "ok" -> "returned" [] st = "fatal" -> "exited" [] OTHER -> "panicked"

\* a call of a decoder that runs to its end in one step
Finish(name, r) ==
  /\ call' = name
  /\ pc' = PcAfter(r.st)
  /\ geoms' = r.geom
  /\ consumed' = r.n
  /\ allocs' = r.allocs
  /\ log' = r.log
  /\ UNCHANGED <<src, bytes, i, h, seen>>

\* gpkgFormat.go:86-103 called on the blob
CallWKBLinearRingInit ==
  /\ pc = "idle"
  /\ \E bo \in 0..2 :
       /\ byteOrd' = bo
       /\ Finish("WKBLinearRing.Init", WKBLinearRingInit(bytes, bo))

\* gpkgFormat.go:114-140 called on the blob
CallWKBPolygonInit ==
  /\ pc = "idle"
  /\ Finish("WKBPolygon.Init", WKBPolygonInit(bytes))
  /\ UNCHANGED byteOrd

\* gpkgFormat.go:169-187 called on the blob
CallReadNextGeometry ==
  /\ pc = "idle"
  /\ Finish("readNextGeometry", readNextGeometry(bytes))
  /\ UNCHANGED byteOrd

\* gpkgFormat.go:189-196, readGeometries up to its loop
CallReadGeometries ==
  /\ pc = "idle"
  /\ call' = "readGeometries"
  /\ pc' = "readGeometries"
  /\ i' = 0
  /\ geoms' = <<>>
  /\ UNCHANGED <<src, bytes, byteOrd, consumed, allocs, log, h, seen>>

\* the loop's iteration putting the new geometry in front of the others
ReadGeometriesIterPrepend ==
  /\ pc = "readGeometries"
  /\ i < Len(bytes)
  /\ LET r == readNextGeometry(Slice(bytes, i, Len(bytes)))
     IN  /\ allocs' = allocs \o r.allocs
         /\ log' = log \o r.log
         /\ IF r.st = "ok"
            THEN /\ i' = i + r.n
                 /\ geoms' = r.geom \o geoms
                 /\ pc' = pc
            ELSE /\ pc' = PcAfter(r.st)
                 /\ UNCHANGED <<i, geoms>>
  /\ UNCHANGED <<src, bytes, call, byteOrd, consumed, h, seen>>

\* gpkgFormat.go:197-203, one iteration of the loop
ReadGeometriesIter ==
  /\ pc = "readGeometries"
  /\ i < Len(bytes)
  /\ LET r == readNextGeometry(Slice(bytes, i, Len(bytes)))
     IN  /\ allocs' = allocs \o r.allocs
         /\ log' = log \o r.log
         /\ IF r.st = "ok"
            THEN /\ i' = i + r.n
                 /\ geoms' = geoms \o r.geom
                 /\ pc' = pc
            ELSE /\ pc' = PcAfter(r.st)
                 /\ UNCHANGED <<i, geoms>>
  /\ UNCHANGED <<src, bytes, call, byteOrd, consumed, h, seen>>

\* gpkgFormat.go:205-210, after the loop
ReadGeometriesReturn ==
  /\ pc = "readGeometries"
  /\ ~ (i < Len(bytes))
  /\ log' = IF i # Len(bytes)
            THEN Append(log, LogEntry("warn", "readGeometries", ZeroU32))
            ELSE log
  /\ consumed' = i
  /\ pc' = "returned"
  /\ UNCHANGED <<src, bytes, call, byteOrd, i, geoms, allocs, h, seen>>

\* gpkgFormat.go:258-349 called on the blob
CallHeaderInit ==
  /\ pc = "idle"
  /\ LET r == GeoPackageBinaryHeaderInit(h, bytes)
     IN  /\ h' = r.h
         /\ log' = r.log
         /\ pc' = PcAfter(r.st)
  /\ call' = "GeoPackageBinaryHeader.Init"
  /\ UNCHANGED <<src, bytes, byteOrd, i, geoms, consumed, allocs, seen>>

\* gpkgFormat.go:351-417, the accessors called on the header; each logs an
\* error when the header is not initialized (EnvelopeType: flags not ready)
ReadHeader ==
  /\ pc \in {"idle", "returned"}
  /\ call \in {"none", "GeoPackageBinaryHeader.Init"}
  /\ seen = <<>>
  /\ seen' = << [Magic |-> Magic(h), Version |-> Version(h),
                 EnvelopeType |-> EnvelopeType(h), SRSId |-> SRSId(h),
                 Envelope |-> Envelope(h), Size |-> Size(h)] >>
  /\ log' = log \o (IF isInitialized(h) THEN <<>>
                    ELSE [k \in 1..5 |-> LogEntry("error", "isInitialized", ZeroU32)])
                \o (IF h.flagsReady THEN <<>>
                    ELSE <<LogEntry("error", "EnvelopeType", ZeroU32)>>)
  /\ UNCHANGED <<src, bytes, pc, call, byteOrd, i, geoms, consumed, allocs, h>>

Next ==
  \/ CallWKBLinearRingInit
  \/ CallWKBPolygonInit
  \/ CallReadNextGeometry
  \/ CallReadGeometries
  \/ ReadGeometriesIter
  \/ ReadGeometriesReturn
  \/ CallHeaderInit
  \/ ReadHeader

Spec == Init /\ [][Next]_vars

\* ------------------------------------------------------------------------
\* Properties

Terminated == pc \in {"exited", "panicked"}

HeaderCalled == call = "GeoPackageBinaryHeader.Init"

HeaderReturned == HeaderCalled /\ pc = "returned"

Plausible(v) == v >= 0 /\ v <= 9999

\* the srs_id bytes geom[4:8] of the blob, decoded in each byte order
SrsLittle == Int32(bytes[8], bytes[7], bytes[6], bytes[5])
SrsBig == Int32(bytes[5], bytes[6], bytes[7], bytes[8])

\* C1: after Init, for every flags byte, SRSId() is the little-endian decode
\* of geom[4:8] when that lies in [0, 9999]; else the big-endian decode when
\* that lies in [0, 9999]; else 0.
C1_SrsIdRetriesBigEndian ==
  HeaderReturned =>
    SRSId(h) = (IF Plausible(SrsLittle) THEN SrsLittle
                ELSE IF Plausible(SrsBig) THEN SrsBig ELSE 0)

\* C2: after Init, Magic() is the two magic bytes read in the byte order that
\* flags bit 0 selects: little-endian (bit 1) makes [0x50, 0x47] 0x4750.
C2_MagicInHeaderByteOrder ==
  HeaderReturned =>
    Magic(h) = (IF bytes[4] % 2 = wkbNDR THEN bytes[2] * 256 + bytes[1]
                ELSE bytes[1] * 256 + bytes[2])

\* C3: when the flags byte carries envelope-type code 5, 6 or 7, Init does not
\* leave an initialized header: the accessors return no decoded values.
C3_InvalidEnvelopeTypeAborts ==
  (HeaderCalled /\ Len(bytes) >= 4 /\ (bytes[4] \div 2) % 8 > 4) =>
    /\ ~ h.initialized
    /\ Size(h) = -1 /\ SRSId(h) = -1 /\ Magic(h) = 0 /\ Envelope(h) = <<>>

\* the type code of a buffer that starts with a valid byte-order flag
TypeCode == bytesToUint32(Slice(bytes, 1, 5), bytes[1]).v

\* C4: readNextGeometry on a buffer whose type code is not 3 returns to its
\* caller with no geometry and zero bytes consumed, having reported the code
\* and decoded nothing of the body.
C4_UnimplementedTypeReturned ==
  (/\ call = "readNextGeometry"
   /\ Len(bytes) >= 5 /\ bytes[1] \in {wkbXDR, wkbNDR}
   /\ TypeCode # polygonType) =>
    /\ pc = "returned"
    /\ geoms = <<>> /\ consumed = 0 /\ allocs = <<>>
    /\ \E k \in 1..Len(log) : log[k].code = TypeCode

\* C5: no decode entry point ends the process through log.Fatal, whatever
\* the input.
C5_NeverTerminates == pc # "exited"

\* polygons followed by the start of one more polygon that is cut short
IsTruncatedPolygon(t) ==
  /\ t # <<>>
  /\ \E bo \in {wkbXDR, wkbNDR}, sh \in {<<1>>, <<2>>} :
       /\ Len(t) < Len(EncPolygon(bo, sh))
       /\ t = SubSeq(EncPolygon(bo, sh), 1, Len(t))

TrailingCase ==
  /\ call = "readGeometries"
  /\ src.kind = "wkb"
  /\ Len(src.polys) >= 1
  /\ IsTruncatedPolygon(src.tail)

Vals(s) == [k \in 1..Len(s.polys) |-> s.polys[k].val]

\* C6: readGeometries on complete geometries followed by an incomplete one
\* does not abort: it returns the complete geometries, in order, with a
\* warning.
C6_TrailingBytesNonFatal ==
  TrailingCase =>
    /\ ~ Terminated
    /\ pc = "returned" =>
         /\ geoms = Vals(src)
         /\ \E k \in 1..Len(log) : log[k].level = "warn"

\* the offset at which the (k+1)-th encoding of the stream starts
RECURSIVE Offset(_, _)
Offset(s, k) == IF k = 0 THEN 0 ELSE Offset(s, k - 1) + Len(s.polys[k].enc)

WellFormedStream ==
  call = "readGeometries" /\ src.kind = "wkb" /\ src.tail = <<>>

\* C7: on a concatenation of k >= 0 well-formed polygons readGeometries never
\* aborts; in its loop the cursor stands at the end of the last geometry
\* decoded and the geometries collected are the first encodings, in order;
\* it returns the k geometries in encounter order with bytes consumed equal
\* to the buffer length (none and 0 for the empty buffer), without a warning.
C7_StreamDecodesAll ==
  WellFormedStream =>
    /\ ~ Terminated
    /\ Len(geoms) <= Len(src.polys)
    /\ geoms = SubSeq(Vals(src), 1, Len(geoms))
    /\ i = Offset(src, Len(geoms))
    /\ pc = "returned" =>
         /\ geoms = Vals(src)
         /\ consumed = Len(bytes)
         /\ \A k \in 1..Len(log) : log[k].level # "warn"

C7_Witness ==
  /\ WellFormedStream /\ pc = "returned"
  /\ Len(geoms) = 2 /\ geoms[1] # geoms[2]
  /\ consumed = Len(bytes) /\ consumed > 18

RECURSIVE RingBytes(_)
RingBytes(shape) ==
  IF shape = <<>> THEN 0 ELSE 4 + 16 * Head(shape) + RingBytes(Tail(shape))

SinglePolygon == src.kind = "wkb" /\ Len(src.polys) = 1 /\ src.tail = <<>>

\* C8: WKBPolygon.Init on exactly one well-formed polygon returns the blob
\* length, 9 + the sum over its rings of (4 + 16 * n_i), and the polygon that
\* was encoded; WKBLinearRing.Init on bytes whose count is 0 returns 4 and an
\* empty ring.
C8_PolygonConsumesBlob ==
  /\ (call = "WKBPolygon.Init" /\ SinglePolygon) =>
       /\ pc = "returned"
       /\ consumed = Len(bytes)
       /\ consumed = 9 + RingBytes(src.polys[1].shape)
       /\ geoms = <<src.polys[1].val>>
  /\ (/\ call = "WKBLinearRing.Init" /\ byteOrd \in {wkbXDR, wkbNDR}
      /\ Len(bytes) >= 4 /\ SubSeq(bytes, 1, 4) = <<0, 0, 0, 0>>) =>
       /\ pc = "returned"
       /\ consumed = 4
       /\ geoms = <<[numPoints |-> ZeroU32, points |-> <<>>]>>

C8_Witness ==
  /\ call = "WKBPolygon.Init" /\ SinglePolygon /\ pc = "returned"
  /\ src.polys[1].shape = <<0, 1>>
  /\ consumed = 33
  /\ geoms[1].rings[1].points = <<>>
  /\ Len(geoms[1].rings[2].points) = 1

\* C9: after Init on a blob whose envelope-type code e is in 0..4, Size() is
\* 8 + 8 * len(Envelope()), len(Envelope()) is 0, 4, 6, 6, 8 and Size() is
\* 8, 40, 56, 56, 72 for e = 0..4; when the blob carries exactly that
\* envelope, Size() is the offset of the first byte after the header.
C9_SizeLocatesPayload ==
  (HeaderReturned /\ EnvelopeType(h) <= 4) =>
    /\ Size(h) = 8 + 8 * Len(Envelope(h))
    /\ Len(Envelope(h)) = <<0, 4, 6, 6, 8>>[EnvelopeType(h) + 1]
    /\ Size(h) = <<8, 40, 56, 56, 72>>[EnvelopeType(h) + 1]
    /\ (src.kind = "gpkg" /\ src.nEnv = Len(Envelope(h))) =>
         /\ Size(h) = Len(bytes) - Len(src.payload)
         /\ Slice(bytes, Size(h), Len(bytes)) = src.payload

C9_Witness ==
  /\ HeaderReturned /\ EnvelopeType(h) = 4 /\ Size(h) = 72
  /\ src.kind = "gpkg" /\ src.nEnv = 8 /\ src.payload # <<>>
  /\ src.flags % 2 = 0

\* C10: every make() of a count read from the input was asked for no more
\* elements than the bytes left in the buffer can hold.
C10_CountsValidatedBeforeAlloc ==
  \A k \in 1..Len(allocs) :
    /\ allocs[k].count.hi = 0
    /\ allocs[k].count.lo * allocs[k].unit <= allocs[k].avail

====
